---- MODULE Spec2Model ----
(***************************************************************************)
(* Conditional-GAN training notebook                                       *)
(* (notebooks/conditional_gan/Conditional-GAN-training.ipynb).             *)
(*                                                                         *)
(* The model follows train_model statement by statement.  The notebook     *)
(* runs it twice: once with the binary cross entropy loss and once with    *)
(* the mean squared error loss, on the same two networks and optimizers.   *)
(*                                                                         *)
(* What the deep-learning framework does is kept at the level the          *)
(* notebook relies on:                                                     *)
(*   - a network's parameters are a version number, raised by one by       *)
(*     every optimizer step that updates them;                             *)
(*   - a tensor that came out of a network carries the graph of the calls  *)
(*     that produced it; backward() walks that graph, adds the loss to     *)
(*     the .grad of every parameter set it reaches, and frees the graph;   *)
(*   - a .grad is the set of losses accumulated into it since it was       *)
(*     last zeroed;                                                        *)
(*   - a batch tensor is represented by one of its samples (every          *)
(*     operation of the loop is elementwise over the batch dimension);     *)
(*   - loss values are counted in halves, so that the division by two of   *)
(*     d_loss is exact; an epoch's mean is kept as a fraction.             *)
(***************************************************************************)
EXTENDS Integers, Sequences, FiniteSets, TLC

\* ---- bounds of the model ------------------------------------------------
MaxEpochs == 2
MaxBatches == 2
\* most batches one call of train_model processes (epochs * len(dataloader))
MaxSteps == 4
NumClasses == 2

\* values a call of adv_loss may return, in halves (0.0 and 1.0)
LossValues == {0, 2}

VARIABLES
    epochs,            \* TRAIN_PARAMETERS['epochs']
    numBatches,        \* len(dataloader)
    cell,              \* which of the two training cells is running
    adversarial_loss,  \* the global adversarial_loss passed as adv_loss
    pc,                \* next statement of train_model
    error,             \* the exception raised, "none" while running
    epoch,             \* position of: for epoch in range(epochs)
    batch,             \* position of: for x, y in dataloader
    y,                 \* labels of the batch fetched
    gParams,           \* generator parameters (version)
    dParams,           \* discriminator parameters (version)
    gGrad,             \* .grad of the generator parameters
    dGrad,             \* .grad of the discriminator parameters
    gTraining,         \* generator.training
    d_loss,            \* loss tensors of the current batch
    g_loss,
    running_g_loss,
    running_d_loss,
    epoch_g_loss,
    epoch_d_loss,
    model_loss,
    image,             \* what save_reconstruction returned
    results,           \* files of the results directory
    rng,               \* number of draws taken from np.random
    \* ---- history of the current call (observers, never read by the code)
    stepLog,           \* optimizer steps taken
    written,           \* file names written by save_image
    plotted,           \* calls of plot_current_results and plot_loss
    lossSeen           \* per epoch: .item() values read and their number

vars == <<epochs, numBatches, cell, adversarial_loss, pc, error, epoch, batch, y,
          gParams, dParams, gGrad, dGrad, gTraining, d_loss, g_loss,
          running_g_loss, running_d_loss, epoch_g_loss, epoch_d_loss,
          model_loss, image, results, rng, stepLog, written, plotted, lossSeen>>

\* ---- tensors and graphs -------------------------------------------------
None == [op |-> "none"]

Labels == 0 .. (NumClasses - 1)

\* variant: a draw that includes high
RandIntInclusive(low, high) == low .. high

\* np.random.randint(0, n_classes, batch_size): high is exclusive
RandInt(low, high) == low .. (high - 1)

\* nn.Embedding(n_classes, n_classes): rows 0 .. n_classes-1
EmbeddingRows == 0 .. (NumClasses - 1)

\* [num for _ in range(n_row) for num in range(n_row)]
SnapshotLabels(n_row) == [i \in 1 .. (n_row * n_row) |-> (i - 1) % n_row]

\* "results/%d.png" % epoch_n
FileName(epoch_n) == "results/" \o ToString(epoch_n) \o ".png"

\* a batch of the dataloader: images carry no graph
RealImage(b) == [op |-> "data", batch |-> b, requires_grad |-> FALSE]

\* the labels of a batch of the dataloader
RealLabels(b, v) == [op |-> "data", batch |-> b, val |-> v]

\* torch.LongTensor(...) of labels taken from the k-th draw of the run
DrawnLabels(k, v) == [op |-> "randint", draw |-> k, val |-> v]

\* torch.FloatTensor(np.random.normal(...)): the k-th draw of the run
Noise(k) == [op |-> "noise", draw |-> k]

\* Generator.forward(noise, labels)
GeneratorForward(params, noise, labels) ==
    [op |-> "generator", params |-> params, noise |-> noise, labels |-> labels,
     requires_grad |-> TRUE]

\* variant: the tensor is passed on with its graph
NotDetached(t) == t

\* Tensor.detach()
Detach(t) == [t EXCEPT !.requires_grad = FALSE]

\* Discriminator.forward(img, labels)
DiscriminatorForward(params, img, labels) ==
    [op |-> "discriminator", params |-> params, img |-> img, labels |-> labels]

\* adv_loss(validity, target): a scalar, whose value the framework computes
AdvLoss(kind, validity, target, value) ==
    [op |-> "adv_loss", kind |-> kind, input |-> validity, target |-> target,
     item |-> value]

\* (d_real_loss + d_fake_loss) / 2
Mean2(a, b) == [op |-> "mean2", a |-> a, b |-> b, item |-> (a.item + b.item) \div 2]

\* parameter sets whose .grad a backward() of the graph reaches
RECURSIVE Leaves(_)
Leaves(g) ==
    CASE g.op = "mean2" -> Leaves(g.a) \cup Leaves(g.b)
      [] g.op = "adv_loss" -> Leaves(g.input)
      [] g.op = "discriminator" -> {"D"} \cup Leaves(g.img)
      [] g.op = "generator" -> IF g.requires_grad THEN {"G"} ELSE {}
      [] OTHER -> {}

Range(f) == {f[i] : i \in DOMAIN f}

\* labels looked up in an embedding by the forward passes of the graph
RECURSIVE Lookups(_)
Lookups(g) ==
    CASE g.op = "mean2" -> Lookups(g.a) \cup Lookups(g.b)
      [] g.op = "adv_loss" -> Lookups(g.input)
      [] g.op = "discriminator" -> Range(g.labels.val) \cup Lookups(g.img)
      [] g.op = "generator" -> Range(g.labels.val)
      [] OTHER -> {}

\* variant: the generator's optimizer built on the discriminator's parameters
OptimizerGOnDiscriminator == "D"

\* torch.optim.Adam(generator.parameters(), lr=lr)
OptimizerGParams == "G"

\* torch.optim.Adam(discriminator.parameters(), lr=lr)
OptimizerDParams == "D"

\* identity of a loss of the run
LossId(name) == [loss |-> name, cell |-> cell, epoch |-> epoch, batch |-> batch]

\* running / len(dataloader)
Div(a, b) == [num |-> a, den |-> b]

\* variant: the exception is swallowed and the loop goes on
OnExceptionContinue(p) == p

\* the statement reached when an exception is raised at statement p:
\* train_model has no try/except, the exception leaves the function
OnException(p) == "failed"

\* variant: a snapshot every other epoch
SnapshotEveryOther(e) == e % 2 = 0

\* if epoch % 1 == 0
SnapshotDue(e) == e % 1 = 0

\* variant: one element too many
HasNextInclusive(i, n) == i <= n

\* range(epochs) and the dataloader have a next element at position i of n
HasNext(i, n) == i < n

\* variant: the sums are set to 0 once, before the loop over the epochs
KeepRunning(running) == running

\* running_g_loss = running_d_loss = 0, inside the loop over the epochs
ResetRunning(running) == 0

\* variant: the generator is trained before the discriminator
BatchBodyGeneratorFirst ==
    <<"g_zero_grad", "g_forward", "g_backward", "g_step",
      "d_zero_grad", "d_forward", "d_backward", "d_step", "accumulate">>

\* the statements of the body of the loop over the batches, in order
BatchBody ==
    <<"d_zero_grad", "d_forward", "d_backward", "d_step",
      "g_zero_grad", "g_forward", "g_backward", "g_step", "accumulate">>

\* the statement of the batch body that follows statement p
Following(p) == BatchBody[(CHOOSE i \in DOMAIN BatchBody : BatchBody[i] = p) + 1]

\* ---- initial state: the cells above the first training cell have run ----
Init ==
    /\ epochs \in 0 .. MaxEpochs
    /\ numBatches \in 0 .. MaxBatches
    /\ epochs * numBatches <= MaxSteps
    /\ cell = 1
    /\ adversarial_loss = "BCEWithLogitsLoss"
    /\ pc = "call"
    /\ error = "none"
    /\ epoch = 0
    /\ batch = 0
    /\ y = None
    /\ gParams = 0
    /\ dParams = 0
    /\ gGrad = {}
    /\ dGrad = {}
    /\ gTraining = TRUE
    /\ d_loss = None
    /\ g_loss = None
    /\ running_g_loss = 0
    /\ running_d_loss = 0
    /\ epoch_g_loss = None
    /\ epoch_d_loss = None
    /\ model_loss = [generator |-> <<>>, discriminator |-> <<>>]
    /\ image = None
    /\ results = {}
    /\ rng = 0
    /\ stepLog = <<>>
    /\ written = <<>>
    /\ plotted = <<>>
    /\ lossSeen = <<>>

\* ---- helpers of the actions ---------------------------------------------
config == <<epochs, numBatches>>
nets == <<gParams, dParams, gGrad, dGrad, gTraining>>
losses == <<d_loss, g_loss, running_g_loss, running_d_loss, epoch_g_loss, epoch_d_loss>>
history == <<stepLog, written, plotted, lossSeen>>

\* statements of train_model at which the call is under way
Running ==
    {"epoch_head", "batch_head", "d_zero_grad", "d_forward", "d_backward", "d_step",
     "g_zero_grad", "g_forward", "g_backward", "g_step", "accumulate", "epoch_loss",
     "append_g", "append_d", "eval", "save_reconstruction", "plot_current_results",
     "train", "next_epoch", "plot_loss"}

\* an exception of kind e is raised by the statement at pc
Throw(e) ==
    /\ pc' = OnException(pc)
    /\ error' = e
    /\ UNCHANGED <<config, cell, adversarial_loss, epoch, batch, y, nets, losses,
                   model_loss, image, results, rng, history>>

\* a tensor holding a loss: its graph and its value
LossTensor(graph) == [op |-> "loss", graph |-> graph, item |-> graph.item]

\* the same tensor once backward() has freed its graph
Freed(t) == [t EXCEPT !.graph = None]

\* Tensor.backward(): every parameter set the graph reaches accumulates the loss
Accumulated(grad, net, graph, id) == IF net \in Leaves(graph) THEN grad \cup {id} ELSE grad

\* variant: the gradients are left as they are
NotZeroed(grad, net, held) == grad

\* Optimizer.zero_grad() on the parameters the optimizer holds
Zeroed(grad, net, held) == IF net = held THEN {} ELSE grad

\* Optimizer.step() on the parameters the optimizer holds
Stepped(params, net, held) == IF net = held THEN params + 1 ELSE params

\* ---- the notebook cell calls train_model ----------------------------------
\* A new frame: the locals of train_model are unbound, then
\* model_loss = {'generator': [], 'discriminator': []}
CallTrainModel ==
    /\ pc = "call"
    /\ pc' = "epoch_head"
    /\ epoch' = 0
    /\ model_loss' = [generator |-> <<>>, discriminator |-> <<>>]
    /\ stepLog' = <<>>
    /\ written' = <<>>
    /\ plotted' = <<>>
    /\ lossSeen' = [e \in 1 .. epochs |-> [g |-> 0, d |-> 0, n |-> 0]]
    /\ batch' = 0
    /\ y' = None
    /\ d_loss' = None
    /\ g_loss' = None
    /\ running_g_loss' = 0
    /\ running_d_loss' = 0
    /\ epoch_g_loss' = None
    /\ epoch_d_loss' = None
    /\ image' = None
    /\ UNCHANGED <<config, cell, adversarial_loss, error, nets, results, rng>>

\* for epoch in range(epochs): ... running_g_loss = running_d_loss = 0
EpochHead ==
    /\ pc = "epoch_head"
    /\ IF HasNext(epoch, epochs)
         THEN /\ running_g_loss' = ResetRunning(running_g_loss)
              /\ running_d_loss' = ResetRunning(running_d_loss)
              /\ batch' = 0
              /\ pc' = "batch_head"
         ELSE /\ pc' = "plot_loss"
              /\ UNCHANGED <<running_g_loss, running_d_loss, batch>>
    /\ UNCHANGED <<config, cell, adversarial_loss, error, epoch, y, nets, d_loss, g_loss,
                   epoch_g_loss, epoch_d_loss, model_loss, image, results, rng, history>>

\* for x, y in dataloader: the labels of the dataset are its classes
BatchHead ==
    /\ pc = "batch_head"
    /\ IF HasNext(batch, numBatches)
         THEN /\ \E v \in Labels : y' = RealLabels(batch, <<v>>)
              /\ pc' = BatchBody[1]
         ELSE /\ pc' = "epoch_loss"
              /\ UNCHANGED y
    /\ UNCHANGED <<config, cell, adversarial_loss, error, epoch, batch, nets, losses,
                   model_loss, image, results, rng, history>>

\* optimizer_D.zero_grad()
D_ZeroGrad ==
    /\ pc = "d_zero_grad"
    /\ gGrad' = Zeroed(gGrad, "G", OptimizerDParams)
    /\ dGrad' = Zeroed(dGrad, "D", OptimizerDParams)
    /\ pc' = Following(pc)
    /\ UNCHANGED <<config, cell, adversarial_loss, error, epoch, batch, y, gParams, dParams,
                   gTraining, losses, model_loss, image, results, rng, history>>

\* the discriminator loss of lines 465-474
DiscriminatorLoss(gen_y, real, fake) ==
    LET z == Noise(rng)
        gen_x == GeneratorForward(gParams, z, gen_y)
        validity_fake == DiscriminatorForward(dParams, Detach(gen_x), gen_y)
        validity_real == DiscriminatorForward(dParams, RealImage(batch), y)
        d_real_loss == AdvLoss(adversarial_loss, validity_real, 1, real)
        d_fake_loss == AdvLoss(adversarial_loss, validity_fake, 0, fake)
    IN  Mean2(d_real_loss, d_fake_loss)

D_Forward ==
    /\ pc = "d_forward"
    /\ \E v \in RandInt(0, NumClasses), real \in LossValues, fake \in LossValues :
         LET graph == DiscriminatorLoss(DrawnLabels(rng + 1, <<v>>), real, fake)
         IN  IF Lookups(graph) \subseteq EmbeddingRows
               THEN /\ d_loss' = LossTensor(graph)
                    /\ rng' = rng + 2
                    /\ pc' = Following(pc)
                    /\ UNCHANGED error
               ELSE /\ pc' = OnException(pc)
                    /\ error' = "IndexError"
                    /\ UNCHANGED <<d_loss, rng>>
    /\ UNCHANGED <<config, cell, adversarial_loss, epoch, batch, y, nets, g_loss,
                   running_g_loss, running_d_loss, epoch_g_loss, epoch_d_loss,
                   model_loss, image, results, history>>

\* d_loss.backward()
D_Backward ==
    /\ pc = "d_backward"
    /\ gGrad' = Accumulated(gGrad, "G", d_loss.graph, LossId("d_loss"))
    /\ dGrad' = Accumulated(dGrad, "D", d_loss.graph, LossId("d_loss"))
    /\ d_loss' = Freed(d_loss)
    /\ pc' = Following(pc)
    /\ UNCHANGED <<config, cell, adversarial_loss, error, epoch, batch, y, gParams, dParams,
                   gTraining, g_loss, running_g_loss, running_d_loss, epoch_g_loss,
                   epoch_d_loss, model_loss, image, results, rng, written, plotted, lossSeen,
                   stepLog>>

\* optimizer_D.step()
D_Step ==
    /\ pc = "d_step"
    /\ gParams' = Stepped(gParams, "G", OptimizerDParams)
    /\ dParams' = Stepped(dParams, "D", OptimizerDParams)
    /\ stepLog' = Append(stepLog, [opt |-> "D", epoch |-> epoch, batch |-> batch,
                                    version |-> dParams'])
    /\ pc' = Following(pc)
    /\ UNCHANGED <<config, cell, adversarial_loss, error, epoch, batch, y, gGrad, dGrad,
                   gTraining, losses, model_loss, image, results, rng, written, plotted,
                   lossSeen>>

\* optimizer_G.zero_grad()
G_ZeroGrad ==
    /\ pc = "g_zero_grad"
    /\ gGrad' = Zeroed(gGrad, "G", OptimizerGParams)
    /\ dGrad' = Zeroed(dGrad, "D", OptimizerGParams)
    /\ pc' = Following(pc)
    /\ UNCHANGED <<config, cell, adversarial_loss, error, epoch, batch, y, gParams, dParams,
                   gTraining, losses, model_loss, image, results, rng, history>>

\* the generator loss of lines 486-491
GeneratorLoss(gen_y, value) ==
    LET z == Noise(rng)
        gen_x == GeneratorForward(gParams, z, gen_y)
        validity == DiscriminatorForward(dParams, gen_x, gen_y)
    IN  AdvLoss(adversarial_loss, validity, 1, value)

G_Forward ==
    /\ pc = "g_forward"
    /\ \E v \in RandInt(0, NumClasses), value \in LossValues :
         LET graph == GeneratorLoss(DrawnLabels(rng + 1, <<v>>), value)
         IN  IF Lookups(graph) \subseteq EmbeddingRows
               THEN /\ g_loss' = LossTensor(graph)
                    /\ rng' = rng + 2
                    /\ pc' = Following(pc)
                    /\ UNCHANGED error
               ELSE /\ pc' = OnException(pc)
                    /\ error' = "IndexError"
                    /\ UNCHANGED <<g_loss, rng>>
    /\ UNCHANGED <<config, cell, adversarial_loss, epoch, batch, y, nets, d_loss,
                   running_g_loss, running_d_loss, epoch_g_loss, epoch_d_loss,
                   model_loss, image, results, history>>

\* g_loss.backward()
G_Backward ==
    /\ pc = "g_backward"
    /\ gGrad' = Accumulated(gGrad, "G", g_loss.graph, LossId("g_loss"))
    /\ dGrad' = Accumulated(dGrad, "D", g_loss.graph, LossId("g_loss"))
    /\ g_loss' = Freed(g_loss)
    /\ pc' = Following(pc)
    /\ UNCHANGED <<config, cell, adversarial_loss, error, epoch, batch, y, gParams, dParams,
                   gTraining, d_loss, running_g_loss, running_d_loss, epoch_g_loss,
                   epoch_d_loss, model_loss, image, results, rng, history>>

\* optimizer_G.step()
G_Step ==
    /\ pc = "g_step"
    /\ gParams' = Stepped(gParams, "G", OptimizerGParams)
    /\ dParams' = Stepped(dParams, "D", OptimizerGParams)
    /\ stepLog' = Append(stepLog, [opt |-> "G", epoch |-> epoch, batch |-> batch,
                                    version |-> gParams'])
    /\ pc' = Following(pc)
    /\ UNCHANGED <<config, cell, adversarial_loss, error, epoch, batch, y, gGrad, dGrad,
                   gTraining, losses, model_loss, image, results, rng, written, plotted,
                   lossSeen>>

\* running_g_loss += g_loss.item(); running_d_loss += d_loss.item()
\* The tensors of the batch are not read again before the next batch rebinds
\* them: they are dropped here.
Accumulate ==
    /\ pc = "accumulate"
    /\ running_g_loss' = running_g_loss + g_loss.item
    /\ running_d_loss' = running_d_loss + d_loss.item
    /\ lossSeen' = [lossSeen EXCEPT ![epoch + 1] =
                      [g |-> @.g + g_loss.item, d |-> @.d + d_loss.item, n |-> @.n + 1]]
    /\ y' = None
    /\ d_loss' = None
    /\ g_loss' = None
    /\ batch' = batch + 1
    /\ pc' = "batch_head"
    /\ UNCHANGED <<config, cell, adversarial_loss, error, epoch, nets, epoch_g_loss,
                   epoch_d_loss, model_loss, image, results, rng, stepLog, written, plotted>>

\* epoch_g_loss = running_g_loss / len(dataloader), and the same for d:
\* a division by zero when the dataloader has no batch
EpochLoss ==
    /\ pc = "epoch_loss"
    /\ IF numBatches = 0
         THEN /\ pc' = OnException(pc)
              /\ error' = "ZeroDivisionError"
              /\ UNCHANGED <<epoch_g_loss, epoch_d_loss>>
         ELSE /\ epoch_g_loss' = Div(running_g_loss, numBatches)
              /\ epoch_d_loss' = Div(running_d_loss, numBatches)
              /\ pc' = "append_g"
              /\ UNCHANGED error
    /\ UNCHANGED <<config, cell, adversarial_loss, epoch, batch, y, nets, d_loss, g_loss,
                   running_g_loss, running_d_loss, model_loss, image, results, rng,
                   history>>

\* variant: the list is rebound to the latest value
ListOverwrite(list, v) == <<v>>

\* list.append
ListAppend(list, v) == Append(list, v)

\* model_loss['generator'].append(epoch_g_loss)
AppendG ==
    /\ pc = "append_g"
    /\ model_loss' = [model_loss EXCEPT !.generator = ListAppend(@, epoch_g_loss)]
    /\ pc' = "append_d"
    /\ UNCHANGED <<config, cell, adversarial_loss, error, epoch, batch, y, nets, losses,
                   image, results, rng, history>>

\* model_loss['discriminator'].append(epoch_d_loss); if epoch % 1 == 0:
AppendD ==
    /\ pc = "append_d"
    /\ model_loss' = [model_loss EXCEPT !.discriminator = ListAppend(@, epoch_d_loss)]
    /\ pc' = IF SnapshotDue(epoch) THEN "eval" ELSE "next_epoch"
    /\ UNCHANGED <<config, cell, adversarial_loss, error, epoch, batch, y, nets, losses,
                   image, results, rng, history>>

\* generator.eval()
GeneratorEval ==
    /\ pc = "eval"
    /\ gTraining' = FALSE
    /\ pc' = "save_reconstruction"
    /\ UNCHANGED <<config, cell, adversarial_loss, error, epoch, batch, y, gParams, dParams,
                   gGrad, dGrad, losses, model_loss, image, results, rng, history>>

\* save_reconstruction(generator, generator_latent_dim, n_classes, epoch, device)
SaveReconstruction ==
    /\ pc = "save_reconstruction"
    /\ LET n_row == NumClasses
           epoch_n == epoch
           z == Noise(rng)
           labels == DrawnLabels(rng, SnapshotLabels(n_row))
           gen_imgs == GeneratorForward(gParams, z, labels)
       IN  IF Lookups(gen_imgs) \subseteq EmbeddingRows
             THEN /\ results' = results \cup {FileName(epoch_n)}
                  /\ written' = Append(written, FileName(epoch_n))
                  /\ image' = [file |-> FileName(epoch_n), gen_imgs |-> gen_imgs]
                  /\ rng' = rng + 1
                  /\ pc' = "plot_current_results"
                  /\ UNCHANGED error
             ELSE /\ pc' = OnException(pc)
                  /\ error' = "IndexError"
                  /\ UNCHANGED <<results, written, image, rng>>
    /\ UNCHANGED <<config, cell, adversarial_loss, epoch, batch, y, nets, losses,
                   model_loss, stepLog, plotted, lossSeen>>

\* fig, axs = init_figure(); plot_current_results(image, model_loss, fig, axs)
PlotCurrentResults ==
    /\ pc = "plot_current_results"
    /\ plotted' = Append(plotted, "plot_current_results")
    /\ pc' = "train"
    /\ UNCHANGED <<config, cell, adversarial_loss, error, epoch, batch, y, nets, losses,
                   model_loss, image, results, rng, stepLog, written, lossSeen>>

\* generator.train()
GeneratorTrain ==
    /\ pc = "train"
    /\ gTraining' = TRUE
    /\ pc' = "next_epoch"
    /\ UNCHANGED <<config, cell, adversarial_loss, error, epoch, batch, y, gParams, dParams,
                   gGrad, dGrad, losses, model_loss, image, results, rng, history>>

\* back to: for epoch in range(epochs)
NextEpoch ==
    /\ pc = "next_epoch"
    /\ epoch' = epoch + 1
    /\ pc' = "epoch_head"
    /\ UNCHANGED <<config, cell, adversarial_loss, error, batch, y, nets, losses,
                   model_loss, image, results, rng, history>>

\* plot_loss(model_loss); train_model returns
PlotLoss ==
    /\ pc = "plot_loss"
    /\ plotted' = Append(plotted, "plot_loss")
    /\ pc' = "returned"
    /\ UNCHANGED <<config, cell, adversarial_loss, error, epoch, batch, y, nets, losses,
                   model_loss, image, results, rng, stepLog, written, lossSeen>>

\* the next cell: adversarial_loss = torch.nn.MSELoss(), then train_model again
NextCell ==
    /\ pc = "returned"
    /\ cell = 1
    /\ cell' = 2
    /\ adversarial_loss' = "MSELoss"
    /\ pc' = "call"
    /\ UNCHANGED <<config, error, epoch, batch, y, nets, losses, model_loss, image,
                   results, rng, history>>

\* a statement of train_model fails (out of memory, a full disk, a closed
\* display, ...)
Raise ==
    /\ pc \in Running
    /\ error = "none"
    /\ Throw("Exception")

Next ==
    \/ CallTrainModel
    \/ EpochHead
    \/ BatchHead
    \/ D_ZeroGrad
    \/ D_Forward
    \/ D_Backward
    \/ D_Step
    \/ G_ZeroGrad
    \/ G_Forward
    \/ G_Backward
    \/ G_Step
    \/ Accumulate
    \/ EpochLoss
    \/ AppendG
    \/ AppendD
    \/ GeneratorEval
    \/ SaveReconstruction
    \/ PlotCurrentResults
    \/ GeneratorTrain
    \/ NextEpoch
    \/ PlotLoss
    \/ NextCell
    \/ Raise

Spec == Init /\ [][Next]_vars

\* The notebook is one thread that runs statement after statement: whenever a
\* statement can run, one eventually does.
FairSpec == Spec /\ WF_vars(Next)

\* ---- properties -----------------------------------------------------------
IsPrefix(s, t) == Len(s) <= Len(t) /\ SubSeq(t, 1, Len(s)) = s

Count(log, P(_)) == Cardinality({i \in DOMAIN log : P(log[i])})

InBatchBody(p) == \E i \in DOMAIN BatchBody : BatchBody[i] = p

\* C1: the generator's parameters change only in optimizer_G.step() and the
\* discriminator's only in optimizer_D.step(): no other statement of
\* train_model (zero_grad, forward, backward, eval/train, save_reconstruction,
\* plotting) changes either, the discriminator update leaves the generator's
\* parameters alone and the generator update the discriminator's.
C1_ParamsChangeOnlyInOwnStep ==
    [][ /\ (gParams' # gParams => pc = "g_step" /\ dParams' = dParams)
        /\ (dParams' # dParams => pc = "d_step" /\ gParams' = gParams)
        /\ (pc = "g_step" /\ pc' # "failed" => gParams' # gParams)
        /\ (pc = "d_step" /\ pc' # "failed" => dParams' # dParams) ]_vars

\* both networks have been updated, g_loss has been backpropagated through
\* the discriminator and a snapshot has been taken in eval mode
C1_Witness ==
    /\ gParams >= 2
    /\ dParams >= 2
    /\ written # <<>>
    /\ pc = "g_step"
    /\ LossId("g_loss") \in dGrad

\* C2: the loss history of a call is append-only and ordered by epoch: each
\* list only ever grows at its end, by one entry per epoch, both lists have
\* length k whenever k epochs are complete, and no entry is changed or removed.
C2_LossHistoryAppendOnly ==
    [][ /\ pc # "call" =>
              /\ IsPrefix(model_loss.generator, model_loss'.generator)
              /\ IsPrefix(model_loss.discriminator, model_loss'.discriminator)
        /\ pc = "call" => model_loss' = [generator |-> <<>>, discriminator |-> <<>>]
        /\ (pc # "call" /\ model_loss'.generator # model_loss.generator) =>
              /\ pc = "append_g"
              /\ Len(model_loss'.generator) = epoch + 1
              /\ model_loss'.discriminator = model_loss.discriminator
        /\ (pc # "call" /\ model_loss'.discriminator # model_loss.discriminator) =>
              /\ pc = "append_d"
              /\ Len(model_loss'.discriminator) = epoch + 1
              /\ model_loss'.generator = model_loss.generator
        /\ pc' \in {"epoch_head", "batch_head", "plot_loss", "returned"} =>
              /\ Len(model_loss'.generator) = epoch'
              /\ Len(model_loss'.discriminator) = epoch' ]_vars

\* two epochs are complete and their entries differ
C2_Witness ==
    /\ pc = "returned"
    /\ Len(model_loss.generator) = 2
    /\ Len(model_loss.discriminator) = 2
    /\ model_loss.generator[1] # model_loss.generator[2]

\* C3: in one call with E epochs, epoch e writes exactly one file,
\* results/<e>.png, after the losses of epoch e are appended and before the
\* first batch of epoch e+1; when the call returns exactly results/0.png ..
\* results/<E-1>.png have been written, in that order.
C3_OneSnapshotPerEpoch ==
    [][ /\ (written' # written /\ pc # "call") =>
              /\ pc = "save_reconstruction"
              /\ Len(written) = epoch
              /\ written' = Append(written, "results/" \o ToString(epoch) \o ".png")
              /\ written'[Len(written')] \in results'
              /\ Len(model_loss.generator) = epoch + 1
              /\ Len(model_loss.discriminator) = epoch + 1
        /\ (pc' = "batch_head" \/ InBatchBody(pc')) => Len(written') = epoch'
        /\ pc' = "returned" =>
              written' = [i \in 1 .. epochs |-> "results/" \o ToString(i - 1) \o ".png"]
      ]_vars

\* a call of two epochs has returned
C3_Witness == pc = "returned" /\ epochs = 2 /\ Len(written) = 2 /\ cell = 2

\* C4: optimizer steps alternate strictly, D then G, one of each per batch,
\* and the generator loss of a batch is computed with the discriminator
\* parameters that the D step of that same batch produced.
C4_StrictAlternation ==
    /\ \A i \in DOMAIN stepLog :
          /\ stepLog[i].opt = (IF i % 2 = 1 THEN "D" ELSE "G")
          /\ stepLog[i].epoch * numBatches + stepLog[i].batch = (i - 1) \div 2
          /\ stepLog[i].batch < numBatches
    /\ \A i \in 1 .. (Len(stepLog) - 1) : stepLog[i].opt # stepLog[i + 1].opt
    /\ (pc \in {"g_backward", "g_step"}) =>
          /\ Len(stepLog) % 2 = 1
          /\ stepLog[Len(stepLog)] =
                [opt |-> "D", epoch |-> epoch, batch |-> batch, version |-> dParams]
    /\ pc = "g_backward" =>
          g_loss.graph.input.params = stepLog[Len(stepLog)].version
    /\ pc \in {"d_backward", "d_step"} =>
          /\ Len(stepLog) % 2 = 0
          /\ Len(stepLog) = 2 * (epoch * numBatches + batch)

\* the generator loss of the second batch of an epoch is about to be
\* backpropagated
C4_Witness == pc = "g_backward" /\ batch = 1 /\ Len(stepLog) = 3

\* C5: a failure is fatal: the statement that fails changes nothing, the call
\* is left at once, and after it no optimizer step, loss-history append or
\* snapshot write happens; what was appended and written stays.
C5_FailureIsFatal ==
    [][ /\ error # "none" =>
              /\ pc = "failed"
              /\ UNCHANGED <<stepLog, model_loss, written, results, gParams, dParams>>
        /\ (error = "none" /\ error' # "none") =>
              /\ pc' = "failed"
              /\ UNCHANGED <<stepLog, model_loss, written, results, gParams, dParams>> ]_vars

\* the call failed after an epoch was recorded and a further step was taken
C5_Witness ==
    /\ error = "Exception"
    /\ pc = "failed"
    /\ Len(model_loss.generator) >= 1
    /\ written # <<>>
    /\ Len(stepLog) >= 3

\* C6: without a failure a call of train_model returns, after exactly E epochs
\* of exactly B batches each (one D step and one G step per batch, E*B of
\* each), with plot_loss called once, as the last thing it does.
C6_TerminatesAfterAllBatches ==
    /\ [](pc = "returned" =>
            /\ epoch = epochs
            /\ Len(stepLog) = 2 * epochs * numBatches
            /\ \A e \in 0 .. (epochs - 1), b \in 0 .. (numBatches - 1), o \in {"D", "G"} :
                  Count(stepLog, LAMBDA st : st.opt = o /\ st.epoch = e /\ st.batch = b) = 1
            /\ Count(plotted, LAMBDA c : c = "plot_loss") = 1
            /\ plotted[Len(plotted)] = "plot_loss"
            /\ Count(plotted, LAMBDA c : c = "plot_current_results") = epochs)
    /\ [](pc \in Running => Count(plotted, LAMBDA c : c = "plot_loss") = 0)
    /\ (pc = "call") ~> (pc = "returned" \/ error # "none")

\* the second call has returned after two epochs of two batches
C6_Witness ==
    /\ pc = "returned"
    /\ cell = 2
    /\ epochs = 2
    /\ numBatches = 2
    /\ Len(stepLog) = 8

\* C7: the pair recorded for epoch e is the sum of the g_loss and d_loss
\* values of the batches of epoch e only, over len(dataloader), and the
\* number of values summed is len(dataloader).
C7_EpochLossIsMeanOfEpoch ==
    /\ \A e \in DOMAIN model_loss.generator :
          /\ model_loss.generator[e] = [num |-> lossSeen[e].g, den |-> numBatches]
          /\ lossSeen[e].n = numBatches
    /\ \A e \in DOMAIN model_loss.discriminator :
          /\ model_loss.discriminator[e] = [num |-> lossSeen[e].d, den |-> numBatches]
          /\ lossSeen[e].n = numBatches
    /\ (InBatchBody(pc) \/ pc = "batch_head") =>
          /\ running_g_loss = lossSeen[epoch + 1].g
          /\ running_d_loss = lossSeen[epoch + 1].d
          /\ lossSeen[epoch + 1].n = batch

\* a second epoch has been recorded after a first one with nonzero losses
C7_Witness ==
    /\ Len(model_loss.generator) = 2
    /\ Len(model_loss.discriminator) = 2
    /\ numBatches = 2
    /\ model_loss.generator[1].num > 0
    /\ model_loss.discriminator[1].num > 0
    /\ model_loss.discriminator[2].num = 1

\* C8: d_loss is the mean of adv_loss(D(x, y), 1) and
\* adv_loss(D(detached G(z, gen_y), gen_y), 0); g_loss is
\* adv_loss(D(G(z, gen_y), gen_y), 1) on noise and labels drawn anew; the
\* discriminator always gets the label tensor the generator was given.
C8_LossesAsDescribed ==
    /\ pc = "d_backward" =>
          LET real == d_loss.graph.a
              fake == d_loss.graph.b
          IN  /\ d_loss.graph.op = "mean2"
              /\ 2 * d_loss.item = real.item + fake.item
              /\ real.op = "adv_loss" /\ real.target = 1
              /\ real.kind = adversarial_loss
              /\ real.input.op = "discriminator"
              /\ real.input.img = [op |-> "data", batch |-> batch, requires_grad |-> FALSE]
              /\ real.input.labels = y
              /\ fake.op = "adv_loss" /\ fake.target = 0
              /\ fake.kind = adversarial_loss
              /\ fake.input.op = "discriminator"
              /\ fake.input.img.op = "generator"
              /\ fake.input.img.requires_grad = FALSE
              /\ fake.input.labels = fake.input.img.labels
              /\ fake.input.img.noise.draw = rng - 2
              /\ fake.input.labels.draw = rng - 1
    /\ pc = "g_backward" =>
          LET g == g_loss.graph
          IN  /\ g.op = "adv_loss" /\ g.target = 1
              /\ g.kind = adversarial_loss
              /\ g_loss.item = g.item
              /\ g.input.op = "discriminator"
              /\ g.input.img.op = "generator"
              /\ g.input.img.requires_grad = TRUE
              /\ g.input.labels = g.input.img.labels
              /\ g.input.img.noise.draw = rng - 2
              /\ g.input.labels.draw = rng - 1

\* a discriminator loss whose generated label differs from the real one
C8_Witness ==
    /\ pc = "d_backward"
    /\ d_loss.graph.b.input.labels.val # y.val
    /\ adversarial_loss = "MSELoss"

\* C9: a snapshot is made of n_row * n_row labels cycling 0 .. n_row-1 in each
\* row, with n_row = n_classes, and every label of a snapshot or drawn for
\* training lies in 0 .. n_classes-1: no embedding lookup is out of range.
C9_LabelsInRange ==
    /\ error # "IndexError"
    /\ image # None =>
          LET val == image.gen_imgs.labels.val
          IN  /\ Len(val) = NumClasses * NumClasses
              /\ \A r \in 0 .. (NumClasses - 1), c \in 0 .. (NumClasses - 1) :
                    val[r * NumClasses + c + 1] = c
              /\ \A i \in DOMAIN val : val[i] \in 0 .. (NumClasses - 1)
    /\ pc = "d_backward" =>
          \A l \in Lookups(d_loss.graph) : l >= 0 /\ l < NumClasses
    /\ pc = "g_backward" =>
          \A l \in Lookups(g_loss.graph) : l >= 0 /\ l < NumClasses

\* a snapshot has been taken and the largest label has been drawn
C9_Witness ==
    /\ image # None
    /\ pc = "g_backward"
    /\ g_loss.graph.input.labels.val = <<NumClasses - 1>>

\* C10: at optimizer_D.step() the discriminator's gradient holds the d_loss of
\* the current batch and nothing else, although g_loss.backward() adds to it
\* too; at optimizer_G.step() the generator's gradient holds the g_loss of the
\* current batch and nothing else.
C10_GradientsOfOwnLossOnly ==
    /\ pc = "d_step" => dGrad = {LossId("d_loss")}
    /\ pc = "g_step" =>
          /\ gGrad = {LossId("g_loss")}
          /\ LossId("g_loss") \in dGrad
    /\ pc \in {"d_backward", "d_step"} => LossId("d_loss") \notin gGrad

\* the D step of a later batch: the g_loss of the batch before had reached
\* the discriminator's gradient
C10_Witness ==
    /\ pc = "d_step"
    /\ dParams >= 1
    /\ gGrad # {}

====
